---------------------------- MODULE Spec2Model ----------------------------
(***************************************************************************)
(* Model of the WSL environment discovery of vscode-python-environments:   *)
(*   - WslPersistenceManager (src/src/managers/wsl/wslPersistence.ts), the  *)
(*     read-only, caching reader of the shared JSON file;                  *)
(*   - WslEnvironmentDiscovery (wslEnvironmentDiscovery.ts), the facade     *)
(*     and the record-to-environment converter.                            *)
(*                                                                         *)
(* Strings are sequences of tokens.  A token is either one of the          *)
(* characters that the code or the URI grammar treats specially            *)
(* (":", "/", "\\", "?", "#") or an indivisible run of other characters.    *)
(* Concatenation of strings is \o.                                         *)
(***************************************************************************)
EXTENDS Integers, Sequences, FiniteSets, TLC

(***************************************************************************)
(* Bounds of the model.                                                    *)
(***************************************************************************)
\* number of clearCache() calls followed
MaxClears == 1
\* members of the "environments" object of a file
MaxEnvs == 2
\* length of a key list of "workspaceMapping"
MaxIds == 2
\* cap of the counters of loads of one cache epoch
MaxLoads == 2

\* the callers: each has at most one query in flight
Procs == {"c1", "c2"}

(***************************************************************************)
(* JavaScript values.                                                      *)
(***************************************************************************)
\* the value undefined (a missing property); never part of a real string
Undefined == <<"<undefined>">>

\* `${v}`: a template literal renders undefined as the text "undefined"
Tmpl(v) == IF v = Undefined THEN <<"undefined">> ELSE v

\* v || dflt for a string-or-undefined v (the empty string is falsy too)
OrElse(v, dflt) == IF v = Undefined \/ v = <<>> THEN dflt ELSE v

\* WslEnvironmentInfo, as found in the file: tag "object", any field may be
\* Undefined (missing); tag "null" is the JSON value null; tag "function"
\* is what a property lookup finds on Object.prototype.
WslEnvironmentInfo(tag, distro, wslPath, venvPath, name, type) ==
    [tag |-> tag, distro |-> distro, wslPath |-> wslPath,
     venvPath |-> venvPath, workspacePath |-> Undefined, name |-> name,
     type |-> type, pythonVersion |-> Undefined, sysPrefix |-> venvPath]

JsNull ==
    WslEnvironmentInfo("null", Undefined, Undefined, Undefined, Undefined,
                       Undefined)

\* Object.prototype.constructor: the function Object, whose .name is "Object"
ProtoConstructor ==
    WslEnvironmentInfo("function", Undefined, Undefined, Undefined,
                       <<"Object">>, Undefined)

\* what a lookup of a property that does not exist evaluates to
JsUndefined ==
    WslEnvironmentInfo("undefined", Undefined, Undefined, Undefined,
                       Undefined, Undefined)

\* JavaScript truthiness of a value found under a key
Truthy(v) == v.tag \notin {"null", "undefined"}

(***************************************************************************)
(* The records and keys the files of the model are built from.             *)
(***************************************************************************)
PyPath == <<"/", "w", "/", ".venv", "/", "python">>
SysPath == <<"/", "usr", "/", "python3">>

RecVenv ==
    WslEnvironmentInfo("object", <<"Ubuntu">>, PyPath,
                       <<"/", "w", "/", ".venv">>, <<".venv">>, <<"venv">>)
RecSystem ==
    WslEnvironmentInfo("object", <<"Debian">>, SysPath, <<"/", "usr">>,
                       <<"python3">>, <<"system">>)
\* a malformed record: the interpreter path wslPath is missing
RecNoPath ==
    WslEnvironmentInfo("object", <<"Ubuntu">>, Undefined,
                       <<"/", "b", "/", ".venv">>, <<"broken">>, <<"venv">>)

KeyVenv == <<"wsl", ":", "Ubuntu", ":">> \o PyPath
KeySystem == <<"wsl", ":", "Debian", ":">> \o SysPath
KeyNoPath == <<"wsl", ":", "Ubuntu", ":", "/", "b", "/", ".venv", "/", "python">>
KeyNull == <<"wsl", ":", "Ubuntu", ":", "/", "gone">>
KeyConstructor == <<"constructor">>

\* the inherited properties of a parsed JSON object that the model follows
ProtoKeys == {KeyConstructor}

Member(k, v) == [key |-> k, val |-> v]

\* name/value members a producer may write into "environments"
EnvMembers ==
    { Member(KeyVenv, RecVenv),
      Member(KeyVenv, RecSystem),
      Member(KeyNoPath, RecNoPath),
      Member(KeyNull, JsNull) }

\* keys a producer may list under a workspace
ListKeys == {KeyVenv, KeySystem, KeyNoPath, KeyNull, KeyConstructor}

\* keys the single-key queries are called with
QueryKeys == {KeyVenv, KeySystem, KeyNull, KeyConstructor}

\* workspace paths: the key the producer writes and the paths asked for
WsKey == <<"c:", "\\", "work">>
WsAsked == <<"c:", "/", "Work">>
WsPaths == {WsKey, WsAsked}


(***************************************************************************)
(* The shared file and JSON.parse.                                         *)
(***************************************************************************)
\* The state of the file: kind "absent" (no such file), "unreadable" (it
\* exists and readFile fails), "garbage" (text that is not JSON), "null"
\* (the JSON text null) or "object" (a JSON object: its version member, its
\* "environments" members and its "workspaceMapping" members, each of the
\* two either missing or the members in the order of the text).
FileState(kind, version, hasEnvs, envs, hasMap, map) ==
    [kind |-> kind, version |-> version, hasEnvs |-> hasEnvs, envs |-> envs,
     hasMap |-> hasMap, map |-> map]

AbsentFile == FileState("absent", Undefined, FALSE, <<>>, FALSE, <<>>)
UnreadableFile == FileState("unreadable", Undefined, FALSE, <<>>, FALSE, <<>>)
GarbageFile == FileState("garbage", Undefined, FALSE, <<>>, FALSE, <<>>)
NullFile == FileState("null", Undefined, FALSE, <<>>, FALSE, <<>>)

\* the sequences over S of length at most n
SeqsUpTo(S, n) == UNION { [1..k -> S] : k \in 0..n }

\* no member written twice (the same name may still occur twice with
\* different values: JSON allows it)
NoRepeat(s) == \A i, j \in 1..Len(s) : i # j => s[i] # s[j]

EnvTexts(members, n) == { s \in SeqsUpTo(members, n) : NoRepeat(s) }

\* the "workspaceMapping" texts: no member, or the producer's workspace
\* key with a key list
MapTexts(keys, n) ==
    {<<>>} \cup { <<Member(WsKey, l)>> : l \in SeqsUpTo(keys, n) }

\* JSON.parse of the members of an object: a name that occurs again keeps
\* its first position and takes the last value
RECURSIVE ParseMembers(_)
ParseMembers(ms) ==
    IF ms = <<>> THEN <<>>
    ELSE LET n == Len(ms)
             front == ParseMembers(SubSeq(ms, 1, n - 1))
             last == ms[n]
         IN IF \E i \in 1..Len(front) : front[i].key = last.key
            THEN [i \in 1..Len(front) |->
                    IF front[i].key = last.key THEN last ELSE front[i]]
            ELSE Append(front, last)

\* WslPersistenceData: the parsed document
WslPersistenceData(version, hasEnvs, environments, hasMap, workspaceMapping) ==
    [version |-> version, hasEnvs |-> hasEnvs, environments |-> environments,
     hasMap |-> hasMap, workspaceMapping |-> workspaceMapping]

\* JSON.parse(content) of a file of kind "object"
JSONparse(f) ==
    WslPersistenceData(f.version, f.hasEnvs, ParseMembers(f.envs),
                       f.hasMap, ParseMembers(f.map))

CURRENT_VERSION == <<"1.0">>

createEmptyData == WslPersistenceData(CURRENT_VERSION, TRUE, <<>>, TRUE, <<>>)

(***************************************************************************)
(* Property access on parsed objects.                                      *)
(***************************************************************************)
HasOwn(obj, k) == \E i \in 1..Len(obj) : obj[i].key = k

OwnValue(obj, k) == obj[CHOOSE i \in 1..Len(obj) : obj[i].key = k].val

\* k in obj: own properties and those inherited from Object.prototype
In(obj, k) == HasOwn(obj, k) \/ k \in ProtoKeys

\* obj[k] for an object of environment records
GetProp(obj, k) ==
    IF HasOwn(obj, k) THEN OwnValue(obj, k)
    ELSE IF k \in ProtoKeys THEN ProtoConstructor
    ELSE JsUndefined

\* workspaceMapping[k] || []
GetListOrEmpty(obj, k) == IF HasOwn(obj, k) THEN OwnValue(obj, k) ELSE <<>>

(***************************************************************************)
(* The files of the model.                                                 *)
(***************************************************************************)
ObjectFiles(versions, envTexts, mapTexts) ==
    { FileState("object", v, TRUE, e, TRUE, m) :
        v \in versions, e \in envTexts, m \in mapTexts }

\* files of the supported version with one of the two members missing
PartialFiles ==
    { FileState("object", CURRENT_VERSION, FALSE, <<>>, TRUE,
                <<Member(WsKey, <<KeyVenv>>)>>),
      FileState("object", CURRENT_VERSION, TRUE,
                <<Member(KeyVenv, RecVenv)>>, FALSE, <<>>) }

OldVersionFile ==
    FileState("object", <<"0.9">>, TRUE, <<Member(KeyVenv, RecVenv)>>, TRUE,
              <<Member(WsKey, <<KeyVenv>>)>>)
NoVersionFile ==
    FileState("object", Undefined, TRUE, <<Member(KeyVenv, RecVenv)>>, TRUE,
              <<Member(WsKey, <<KeyVenv>>)>>)

BrokenFiles ==
    {AbsentFile, UnreadableFile, GarbageFile, NullFile, OldVersionFile,
     NoVersionFile} \cup PartialFiles

\* the files of the specification of the functions: every text within the
\* bounds
DataFiles ==
    BrokenFiles \cup
    ObjectFiles({CURRENT_VERSION}, EnvTexts(EnvMembers, MaxEnvs),
                MapTexts(ListKeys, MaxIds))

(***************************************************************************)
(* WslPersistenceManager: the functions of a query once loadData has       *)
(* returned.  A load outcome is [threw, data]; a query outcome is a        *)
(* QueryResult, of which each operation fills its own field.               *)
(***************************************************************************)
LoadOutcome(threw, data) == [threw |-> threw, data |-> data]

QueryResult(threw, map, recs, rec, has, envs) ==
    [threw |-> threw, map |-> map, recs |-> recs, rec |-> rec, has |-> has,
     envs |-> envs]

NoResult == QueryResult(FALSE, <<>>, <<>>, JsUndefined, FALSE, <<>>)
Thrown == QueryResult(TRUE, <<>>, <<>>, JsUndefined, FALSE, <<>>)

Lower(t) ==
    CASE t = "Work" -> "work"
      [] t = "C:" -> "c:"
      [] OTHER -> t

toLowerCase(str) == [i \in 1..Len(str) |-> Lower(str[i])]

\* the separators of path.normalize, and the one it writes
PathSeps(platform) == IF platform = "win32" THEN {"/", "\\"} ELSE {"/"}
PathSep(platform) == IF platform = "win32" THEN "\\" ELSE "/"

\* path.normalize on paths without "." and ".." segments: every separator
\* becomes the platform's, a run of separators becomes one
RECURSIVE pathNormalize(_, _)
pathNormalize(str, platform) ==
    IF str = <<>> THEN <<>>
    ELSE LET n == Len(str)
             front == pathNormalize(SubSeq(str, 1, n - 1), platform)
         IN IF str[n] \in PathSeps(platform)
            THEN IF n > 1 /\ str[n - 1] \in PathSeps(platform)
                 THEN front
                 ELSE Append(front, PathSep(platform))
            ELSE Append(front, str[n])

\* a normalization that keeps the case on every platform
normalizePathKeepCase(filePath, platform) == pathNormalize(filePath, platform)

normalizePath(filePath, platform) ==
    LET normalized == pathNormalize(filePath, platform)
    IN IF platform = "win32" THEN toLowerCase(normalized) ELSE normalized

getAllEnvironments(l) ==
    IF l.threw \/ ~l.data.hasEnvs THEN Thrown
    ELSE [NoResult EXCEPT !.map = l.data.environments]

\* the loop of getWorkspaceEnvironments over the key list
RECURSIVE ResolveIds(_, _)
ResolveIds(environments, envIds) ==
    IF envIds = <<>> THEN <<>>
    ELSE LET n == Len(envIds)
             front == ResolveIds(environments, SubSeq(envIds, 1, n - 1))
             env == GetProp(environments, envIds[n])
         IN IF Truthy(env) THEN Append(front, env) ELSE front

getWorkspaceEnvironments(l, workspacePath, platform) ==
    IF l.threw \/ ~l.data.hasMap THEN Thrown
    ELSE LET normalizedPath == normalizePath(workspacePath, platform)
             envIds == GetListOrEmpty(l.data.workspaceMapping, normalizedPath)
         IN IF envIds # <<>> /\ ~l.data.hasEnvs THEN Thrown
            ELSE [NoResult EXCEPT
                    !.recs = ResolveIds(l.data.environments, envIds)]

getEnvironment(l, envId) ==
    IF l.threw \/ ~l.data.hasEnvs THEN Thrown
    ELSE [NoResult EXCEPT !.rec = GetProp(l.data.environments, envId)]

hasEnvironment(l, envId) ==
    IF l.threw \/ ~l.data.hasEnvs THEN Thrown
    ELSE [NoResult EXCEPT !.has = In(l.data.environments, envId)]

(***************************************************************************)
(* Uri.parse of the host (vscode), non-strict, on token strings: an        *)
(* optional scheme (the text before the first ":", when it is not empty    *)
(* and has no "/", "?" or "#"), an optional authority (after "//", up to   *)
(* the next "/", "?" or "#"), the path (up to "?" or "#"), an optional     *)
(* query (after "?", up to "#") and an optional fragment (after "#").      *)
(***************************************************************************)
UriSpecial == {":", "/", "?", "#"}

\* tokens with a character that a scheme must not contain
BadSchemeTokens == {"my env", " (WSL: ", ")"}

\* the least index from `from` on whose token is in `stops`, or Len + 1
RECURSIVE ScanTo(_, _, _)
ScanTo(str, from, stops) ==
    IF from > Len(str) \/ str[from] \in stops THEN from
    ELSE ScanTo(str, from + 1, stops)

Uri(ok, scheme, authority, path, query, fragment) ==
    [ok |-> ok, scheme |-> scheme, authority |-> authority, path |-> path,
     query |-> query, fragment |-> fragment]

\* what stands for the exception of Uri.parse
UriError == Uri(FALSE, <<>>, <<>>, <<>>, <<>>, <<>>)

\* percentDecode of a component: the one escape of the model, "%20", is
\* the space
percentDecode(str) ==
    [i \in 1..Len(str) |-> IF str[i] = "%20" THEN " " ELSE str[i]]

\* _schemeFix, _referenceResolution and _validateUri of the constructor
UriChecked(scheme, authority, path, query, fragment) ==
    IF \E i \in 1..Len(scheme) : scheme[i] \in BadSchemeTokens
    THEN UriError
    ELSE IF authority = <<>> /\ Len(path) >= 2 /\ path[1] = "/" /\ path[2] = "/"
    THEN UriError
    ELSE Uri(TRUE, scheme, authority, path, query, fragment)

UriResolved(scheme, authority, path, query, fragment) ==
    UriChecked(scheme, authority,
               IF scheme \in {<<"file">>, <<"http">>, <<"https">>}
               THEN IF path = <<>> THEN <<"/">>
                    ELSE IF path[1] # "/" THEN <<"/">> \o path ELSE path
               ELSE path,
               query, fragment)

\* the query, from the "?" at q (if there is one) to the "#" at h, and the
\* fragment after it
UriTail(value, scheme, authority, path, q, h) ==
    UriResolved(IF scheme = <<>> THEN <<"file">> ELSE scheme,
                percentDecode(authority), percentDecode(path),
                percentDecode(SubSeq(value, q + 1, h - 1)),
                percentDecode(SubSeq(value, h + 1, Len(value))))

\* the path, from p to the "?" or "#" at q
UriPath(value, scheme, authority, p, q) ==
    UriTail(value, scheme, authority, SubSeq(value, p, q - 1), q,
            IF q <= Len(value) /\ value[q] = "?"
            THEN ScanTo(value, q + 1, {"#"}) ELSE q)

\* the authority, between the "//" at a and the path at p
UriAuthority(value, scheme, a, p) ==
    UriPath(value, scheme, IF p > a THEN SubSeq(value, a + 2, p - 1) ELSE <<>>,
            p, ScanTo(value, p, {"?", "#"}))

\* the rest after the scheme starts at a
UriRest(value, scheme, a) ==
    UriAuthority(value, scheme, a,
                 IF a + 1 <= Len(value) /\ value[a] = "/" /\ value[a + 1] = "/"
                 THEN ScanTo(value, a + 2, {"/", "?", "#"}) ELSE a)

\* a parser that takes no text for a scheme
UriSchemeNone(value, c) == UriRest(value, <<>>, 1)

\* c is the index of the first special character
UriScheme(value, c) ==
    IF c >= 2 /\ c <= Len(value) /\ value[c] = ":"
    THEN UriRest(value, SubSeq(value, 1, c - 1), c + 1)
    ELSE UriRest(value, <<>>, 1)

UriParse(value) == UriScheme(value, ScanTo(value, 1, UriSpecial))

\* encodeURIComponentFast of a token: the characters outside the
\* unreserved set are escaped, "/" is kept in a path
encodeURIComponentFast(t, isPath) ==
    CASE t = ":" -> "%3A"
      [] t = "/" -> IF isPath THEN "/" ELSE "%2F"
      [] t = "?" -> "%3F"
      [] t = "#" -> "%23"
      [] t = "\\" -> "%5C"
      [] t = " " -> "%20"
      [] OTHER -> t

\* encodeURIComponentMinimal of a token: only "#" and "?" are escaped
encodeURIComponentMinimal(t) ==
    CASE t = "#" -> "%23"
      [] t = "?" -> "%3F"
      [] OTHER -> t

\* the encoder of toString(skipEncoding) applied to a component
UriEncode(str, isPath, skipEncoding) ==
    [i \in 1..Len(str) |->
        IF skipEncoding THEN encodeURIComponentMinimal(str[i])
        ELSE encodeURIComponentFast(str[i], isPath)]

\* tokens that are one upper-case letter, and their lower case
DriveLetters == {"U"}
LowerDrive(t) == IF t = "U" THEN "u" ELSE t

\* toString lower-cases what looks like a drive letter: /C:... and C:...
UriDrivePath(path) ==
    IF Len(path) >= 3 /\ path[1] = "/" /\ path[3] = ":"
    THEN [path EXCEPT ![2] = LowerDrive(@)]
    ELSE IF Len(path) >= 2 /\ path[2] = ":"
    THEN [path EXCEPT ![1] = LowerDrive(@)]
    ELSE path

\* uri.toString(skipEncoding) of the host
UriToString(uri, skipEncoding) ==
    (IF uri.scheme # <<>> THEN uri.scheme \o <<":">> ELSE <<>>)
    \o (IF uri.authority # <<>> \/ uri.scheme = <<"file">>
        THEN <<"/", "/">> ELSE <<>>)
    \o UriEncode(uri.authority, FALSE, skipEncoding)
    \o UriEncode(UriDrivePath(uri.path), TRUE, skipEncoding)
    \o (IF uri.query # <<>>
        THEN <<"?">> \o UriEncode(uri.query, FALSE, skipEncoding) ELSE <<>>)
    \o (IF uri.fragment # <<>>
        THEN <<"#">> \o (IF skipEncoding THEN uri.fragment
                         ELSE UriEncode(uri.fragment, FALSE, FALSE))
        ELSE <<>>)

(***************************************************************************)
(* WslEnvironmentDiscovery: the converter.                                 *)
(***************************************************************************)
\* PythonCommandRunConfiguration
Command(executable, args) == [executable |-> executable, args |-> args]

\* an optional value: absent (undefined) or present with a value
Absent == [present |-> FALSE, value |-> <<>>]
Present(v) == [present |-> TRUE, value |-> v]

buildActivationCommands(info) ==
    LET activateScript == Tmpl(info.venvPath) \o <<"/", "bin", "/", "activate">>
    IN << Command(<<"wsl.exe">>,
                  << <<"-d">>, info.distro, <<"--">>, <<"bash">>, <<"-c">>,
                     <<"source \"">> \o activateScript \o <<"\"">> >>) >>

\* the Map, as its entries in insertion order
buildShellActivation(info) ==
    LET activateScript == Tmpl(info.venvPath) \o <<"/", "bin", "/", "activate">>
    IN << Member("bash", << Command(<<"source">>, <<activateScript>>) >>),
          Member("zsh", << Command(<<"source">>, <<activateScript>>) >>),
          Member("fish",
                 << Command(<<"source">>,
                            << Tmpl(info.venvPath)
                               \o <<"/", "bin", "/", "activate.fish">> >>) >>),
          Member("pwsh",
                 << Command(<<".">>,
                            << Tmpl(info.venvPath)
                               \o <<"/", "bin", "/", "Activate.ps1">> >>) >>),
          Member("unknown", << Command(<<"source">>, <<activateScript>>) >>) >>

\* a builder that leaves out the activation of system interpreters only
buildExecutionInfoNotSystem(info) ==
    [run |-> Command(<<"wsl.exe">>,
                     << <<"-d">>, info.distro, <<"--">>, info.wslPath >>),
     activation |->
        IF info.type # <<"system">> THEN Present(buildActivationCommands(info))
        ELSE Absent,
     shellActivation |->
        IF info.type # <<"system">> THEN Present(buildShellActivation(info))
        ELSE Absent,
     deactivation |->
        IF info.type # <<"system">>
        THEN Present(<< Command(<<"deactivate">>, <<>>) >>)
        ELSE Absent]

\* a builder whose run command leaves the choice of the distribution out
buildExecutionInfoNoDistro(info) ==
    [run |-> Command(<<"wsl.exe">>, << <<"--">>, info.wslPath >>),
     activation |->
        IF info.type = <<"venv">> THEN Present(buildActivationCommands(info))
        ELSE Absent,
     shellActivation |->
        IF info.type = <<"venv">> THEN Present(buildShellActivation(info))
        ELSE Absent,
     deactivation |->
        IF info.type = <<"venv">>
        THEN Present(<< Command(<<"deactivate">>, <<>>) >>)
        ELSE Absent]

buildExecutionInfo(info) ==
    [run |-> Command(<<"wsl.exe">>,
                     << <<"-d">>, info.distro, <<"--">>, info.wslPath >>),
     activation |->
        IF info.type = <<"venv">> THEN Present(buildActivationCommands(info))
        ELSE Absent,
     shellActivation |->
        IF info.type = <<"venv">> THEN Present(buildShellActivation(info))
        ELSE Absent,
     deactivation |->
        IF info.type = <<"venv">>
        THEN Present(<< Command(<<"deactivate">>, <<>>) >>)
        ELSE Absent]

\* a key built with the two fields in the wrong order
generateEnvIdSwapped(info) ==
    <<"wsl", ":">> \o Tmpl(info.wslPath) \o <<":">> \o Tmpl(info.distro)

generateEnvId(info) ==
    <<"wsl", ":">> \o Tmpl(info.distro) \o <<":">> \o Tmpl(info.wslPath)

\* PythonEnvironmentInfo built by convertToPythonEnvironment
PythonEnvironmentInfo(info, envId) ==
    [name |-> info.name,
     displayName |-> Tmpl(info.name) \o <<" (WSL: ">> \o Tmpl(info.distro)
                     \o <<")">>,
     shortDisplayName |-> info.name,
     displayPath |-> info.wslPath,
     version |-> OrElse(info.pythonVersion, <<"Unknown">>),
     environmentPath |-> UriParse(envId),
     description |-> <<"WSL ">> \o Tmpl(info.type) \o <<" environment in ">>
                     \o Tmpl(info.distro),
     execInfo |-> buildExecutionInfo(info),
     sysPrefix |-> info.sysPrefix]

\* the outcome of a conversion: an exception (threw), undefined (ok =
\* FALSE) or an environment
Converted(ok, env) == [threw |-> FALSE, ok |-> ok, env |-> env]

NotConverted == Converted(FALSE, [name |-> Undefined])

ConvertThrew == [NotConverted EXCEPT !.threw = TRUE]

\* api.createPythonEnvironmentItem of the host: it throws for the
\* descriptors the host refuses and else returns the environment made of
\* the descriptor
createPythonEnvironmentItem(envInfo, rejects) ==
    IF envInfo.displayPath \in rejects THEN ConvertThrew
    ELSE Converted(TRUE, envInfo)

\* the try block: reading a property of null in buildExecutionInfo
\* throws, and so do Uri.parse and the host factory
ConvertBuilt(info, envInfo, rejects) ==
    IF info.tag \in {"null", "undefined"} \/ ~envInfo.environmentPath.ok
    THEN ConvertThrew
    ELSE createPythonEnvironmentItem(envInfo, rejects)

\* a converter without its catch block
ConvertCatchNone(outcome) == outcome

\* catch (err) { ...; return undefined; }
ConvertCatch(outcome) == IF outcome.threw THEN NotConverted ELSE outcome

convertToPythonEnvironment(info, envId, rejects) ==
    ConvertCatch(ConvertBuilt(info, PythonEnvironmentInfo(info, envId), rejects))

(***************************************************************************)
(* WslEnvironmentDiscovery: the facade.                                    *)
(***************************************************************************)
\* the loop of discoverEnvironments: [threw, envs].  Reading info.distro of
\* a null record for the log throws outside the inner try.
RECURSIVE DiscoverLoop(_, _)
\* one round of the loop: front is the outcome of the rounds before
DiscoverStep(front, info, pythonEnv) ==
    IF front.threw \/ info.tag \in {"null", "undefined"}
    THEN [threw |-> TRUE, envs |-> <<>>]
    ELSE IF pythonEnv.ok
    THEN [front EXCEPT !.envs = Append(@, pythonEnv.env)]
    ELSE front

DiscoverLoop(wslEnvs, rejects) ==
    IF wslEnvs = <<>> THEN [threw |-> FALSE, envs |-> <<>>]
    ELSE DiscoverStep(
             DiscoverLoop(SubSeq(wslEnvs, 1, Len(wslEnvs) - 1), rejects),
             wslEnvs[Len(wslEnvs)].val,
             convertToPythonEnvironment(wslEnvs[Len(wslEnvs)].val,
                                        wslEnvs[Len(wslEnvs)].key, rejects))

\* l is the outcome of loadData inside persistence.getAllEnvironments()
\* what discoverEnvironments returns after its loop
DiscoverReturn(loop) ==
    IF loop.threw THEN NoResult ELSE [NoResult EXCEPT !.envs = loop.envs]

\* a discoverEnvironments that lets the exception of the store through
DiscoverFromNoCatch(wslEnvs, rejects) ==
    IF wslEnvs.threw THEN Thrown
    ELSE DiscoverReturn(DiscoverLoop(wslEnvs.map, rejects))

\* wslEnvs is the outcome of persistence.getAllEnvironments()
DiscoverFrom(wslEnvs, rejects) ==
    IF wslEnvs.threw THEN NoResult
    ELSE DiscoverReturn(DiscoverLoop(wslEnvs.map, rejects))

discoverEnvironments(l, rejects) == DiscoverFrom(getAllEnvironments(l), rejects)

RECURSIVE WorkspaceLoop(_, _)
\* a round that puts the environment in front of the list
WorkspaceStepInFront(front, pythonEnv) ==
    IF pythonEnv.ok THEN <<pythonEnv.env>> \o front ELSE front

\* one round of the loop: front is the list of the rounds before
WorkspaceStep(front, pythonEnv) ==
    IF pythonEnv.ok THEN Append(front, pythonEnv.env) ELSE front

WorkspaceLoop(wslEnvs, rejects) ==
    IF wslEnvs = <<>> THEN <<>>
    ELSE WorkspaceStep(
             WorkspaceLoop(SubSeq(wslEnvs, 1, Len(wslEnvs) - 1), rejects),
             convertToPythonEnvironment(wslEnvs[Len(wslEnvs)],
                                        generateEnvId(wslEnvs[Len(wslEnvs)]),
                                        rejects))

\* wslEnvs is the outcome of persistence.getWorkspaceEnvironments(path)
WorkspaceFrom(wslEnvs, rejects) ==
    IF wslEnvs.threw THEN NoResult
    ELSE [NoResult EXCEPT !.envs = WorkspaceLoop(wslEnvs.recs, rejects)]

discoveryGetWorkspaceEnvironments(l, workspacePath, platform, rejects) ==
    WorkspaceFrom(getWorkspaceEnvironments(l, workspacePath, platform), rejects)

(***************************************************************************)
(* The calls of the model.                                                 *)
(***************************************************************************)
Call(op, path, key) == [op |-> op, path |-> path, key |-> key]

NoCall == Call("none", <<>>, <<>>)

StoreCalls ==
    {Call("getAllEnvironments", <<>>, <<>>)}
    \cup { Call("getWorkspaceEnvironments", w, <<>>) : w \in WsPaths }
    \cup { Call("getEnvironment", <<>>, k) : k \in QueryKeys }
    \cup { Call("hasEnvironment", <<>>, k) : k \in QueryKeys }

FacadeCalls ==
    {Call("discoverEnvironments", <<>>, <<>>)}
    \cup { Call("discovery.getWorkspaceEnvironments", w, <<>>) : w \in WsPaths }

AllCalls == StoreCalls \cup FacadeCalls

\* the calls of the specification of the interleavings
ConcCalls ==
    {Call("getAllEnvironments", <<>>, <<>>),
     Call("discoverEnvironments", <<>>, <<>>)}

\* the files of the specification of the interleavings
ValidFileA ==
    FileState("object", CURRENT_VERSION, TRUE, <<Member(KeyVenv, RecVenv)>>,
              TRUE, <<Member(WsKey, <<KeyVenv>>)>>)
ValidFileB ==
    FileState("object", CURRENT_VERSION, TRUE,
              <<Member(KeySystem, RecSystem)>>, TRUE, <<>>)

ConcFiles ==
    {AbsentFile, GarbageFile, OldVersionFile, ValidFileA, ValidFileB}

Platforms == {"win32", "linux"}

\* the workspace paths and files of the specification of the lookup: the
\* same path in several spellings, and files whose mapping has the
\* lower-case key, the key with upper-case letters, or both
WsUpperKey == <<"C:", "\\", "Work">>
WsMixedKey == <<"c:", "\\", "Work">>
WsCasePaths == {WsKey, WsUpperKey, WsMixedKey, WsAsked}

WsCalls == { Call("getWorkspaceEnvironments", w, <<>>) : w \in WsCasePaths }

WsFiles ==
    ObjectFiles({CURRENT_VERSION},
                {<<Member(KeyVenv, RecVenv), Member(KeySystem, RecSystem)>>},
                { <<Member(WsKey, <<KeyVenv>>)>>,
                  <<Member(WsUpperKey, <<KeySystem>>)>>,
                  <<Member(WsUpperKey, <<KeySystem>>),
                    Member(WsKey, <<KeyVenv>>)>> })

\* the records and keys of the specification of the converter: every
\* combination of the fields below, each field also missing
CvDistros == {<<"Ubuntu-22.04">>, <<"U">>, Undefined}
CvPaths ==
    { <<"/", "mnt", "/", "c", "/", "w", "/", ".venv", "/", "bin", "/", "python">>,
      <<"/", "c", "#", "/", "python">>,
      <<"/", "my", "%20", "env", "/", "python">>,
      <<"/", "a", "?", "b", "?", "c">>,
      Undefined }
CvBases == {<<"/", "mnt", "/", "c", "/", "proj", "/", ".venv">>, Undefined}
CvTypes == {<<"venv">>, <<"system">>, <<"other">>, Undefined}

CvInfos ==
    { WslEnvironmentInfo("object", d, w, b, <<"env">>, t) :
        d \in CvDistros, w \in CvPaths, b \in CvBases, t \in CvTypes }
    \cup {JsNull, ProtoConstructor}

\* keys of the file that are not built from the record: a key of another
\* record and a key that Uri.parse refuses
KeyBadScheme == <<"my env", ":", "/", "python">>
CvKeys == {KeyVenv, KeyBadScheme}

\* the hosts of the model: one that accepts every descriptor, one that
\* refuses a descriptor without displayPath
HostPolicies == {{}, {Undefined}}

(***************************************************************************)
(* State.                                                                  *)
(***************************************************************************)
VARIABLES
    platform,      \* process.platform
    hostRejects,   \* the displayPath values the host factory refuses
    dirExists,     \* the directory of the file exists
    file,          \* the shared file
    cache,         \* this.cache: <<>> (undefined) or <<data>>
    slots,         \* per caller: the query in flight or its outcome
    epoch,         \* history: number of clearCache() calls so far
    cacheRead,     \* history: epoch in which the cached document was read
    producerLast,  \* history: what the producer last left as the file
    epochSeq,      \* history: no two queries overlapped in this epoch
    epochReads,    \* history: load runs of this epoch that accessed the file
    epochCommits,  \* history: documents cached in this epoch
    cachedReads,   \* history: file accesses of this epoch made while a
                   \* document was cached
    lastRead,      \* history: <<text>> of the latest readFile of this
                   \* epoch that gave a text, or <<>>
    conv           \* the conversion of one record, step by step

vars ==
    <<platform, hostRejects, dirExists, file, cache, slots, epoch, cacheRead,
      producerLast, epochSeq, epochReads, epochCommits, cachedReads, lastRead,
      conv>>

\* pc: "none", "record" (a record taken from the store), "keyed" (with the
\* key the caller gives the converter) and "converted"; how: where the key
\* comes from ("generated": generateEnvId, "stored": the key of the file);
\* out is what convertToPythonEnvironment returned.
Conv(pc, info, how, envId, out) ==
    [pc |-> pc, info |-> info, how |-> how, envId |-> envId, out |-> out]

IdleConv == Conv("none", JsUndefined, "none", <<>>, NotConverted)

\* the records a conversion starts from
ConvStart(infos) ==
    IF infos = {} THEN {IdleConv}
    ELSE { Conv("record", i, "none", <<>>, NotConverted) : i \in infos }

\* pc: "idle", the awaits of loadData ("ensureDir", "pathExists",
\* "readFile"), "commit" (the continuation after readFile) and "done";
\* how: the way loadData ended ("cache": the cached branch, "dirError":
\* ensureDir failed, "missing": pathExists found no file, "readError":
\* readFile failed, "read": the text was read); startAt and readAt are the
\* epochs of the start of the query and of the file access its outcome
\* comes from; content is the text readFile gave; load is what loadData
\* returned, result what the query returned.
Slot(pc, call, how, startAt, readAt, content, load, result) ==
    [pc |-> pc, call |-> call, how |-> how, startAt |-> startAt,
     readAt |-> readAt, content |-> content, load |-> load,
     result |-> result]

IdleSlot ==
    Slot("idle", NoCall, "none", 0, 0, AbsentFile,
         LoadOutcome(FALSE, createEmptyData), NoResult)

InFlight(p) == slots[p].pc \in {"ensureDir", "pathExists", "readFile", "commit"}

\* the counters of an epoch count while its queries are sequential
Bump(n) == IF epochSeq /\ n < MaxLoads THEN n + 1 ELSE n

(***************************************************************************)
(* loadData.                                                               *)
(***************************************************************************)
\* a loadData that never takes the cached branch
CacheHitNever(c) == FALSE

\* if (this.cache)
CacheHit(c) == c # <<>>

\* the cached branch: the log line reads Object.keys(this.cache.environments)
\* outside the try
LoadCached(data) ==
    IF ~data.hasEnvs THEN LoadOutcome(TRUE, createEmptyData)
    ELSE LoadOutcome(FALSE, data)

\* a loadData without the version gate
VersionMismatchNever(data) == FALSE

\* data.version !== this.CURRENT_VERSION
VersionMismatch(data) == data.version # CURRENT_VERSION

\* a continuation that adds the entries it parsed to those of the cached
\* document
LoadParsedMerging(content, c) ==
    IF content.kind # "object" \/ content.version # CURRENT_VERSION
    THEN [load |-> LoadOutcome(FALSE, createEmptyData), cache |-> c,
          cached |-> FALSE]
    ELSE LET data == JSONparse(content)
             merged ==
                 IF c = <<>> THEN data
                 ELSE [data EXCEPT
                         !.environments =
                             ParseMembers(c[1].environments \o @)]
         IN [load |-> LoadOutcome(FALSE, merged), cache |-> <<merged>>,
             cached |-> TRUE]

\* the continuation after readFile: what loadData returns, this.cache
\* after it, and whether it assigned this.cache.  JSON.parse of text that
\* is not JSON throws, and so does reading .version of null; after
\* this.cache = data the log line reads Object.keys(data.environments)
\* inside the try.
LoadParsed(content, c) ==
    IF content.kind # "object"
    THEN [load |-> LoadOutcome(FALSE, createEmptyData), cache |-> c,
          cached |-> FALSE]
    ELSE LET data == JSONparse(content)
         IN IF VersionMismatch(data)
            THEN [load |-> LoadOutcome(FALSE, createEmptyData), cache |-> c,
                  cached |-> FALSE]
            ELSE IF ~data.hasEnvs
            THEN [load |-> LoadOutcome(FALSE, createEmptyData),
                  cache |-> <<data>>, cached |-> TRUE]
            ELSE [load |-> LoadOutcome(FALSE, data), cache |-> <<data>>,
                  cached |-> TRUE]

\* fs.ensureFile in the place of fs.ensureDir: a missing file is created
EnsureFileEffect(d, f) ==
    [dirExists |-> TRUE, file |-> IF f.kind = "absent" THEN GarbageFile ELSE f]

\* fs.ensureDir(path.dirname(persistenceFilePath)): [dirExists, file]
EnsureDirEffect(d, f) == [dirExists |-> TRUE, file |-> f]

\* the part of a query after await this.loadData()
Apply(call, l) ==
    CASE call.op = "getAllEnvironments" -> getAllEnvironments(l)
      [] call.op = "getWorkspaceEnvironments" ->
            getWorkspaceEnvironments(l, call.path, platform)
      [] call.op = "getEnvironment" -> getEnvironment(l, call.key)
      [] call.op = "hasEnvironment" -> hasEnvironment(l, call.key)
      [] call.op = "discoverEnvironments" -> discoverEnvironments(l, hostRejects)
      [] call.op = "discovery.getWorkspaceEnvironments" ->
            discoveryGetWorkspaceEnvironments(l, call.path, platform,
                                              hostRejects)

\* the slot of a query that returned (or threw)
Finished(s, how, l, readAt) ==
    [s EXCEPT !.pc = "done", !.how = how, !.readAt = readAt, !.load = l,
              !.result = Apply(s.call, l)]

(***************************************************************************)
(* Initial states and actions.                                             *)
(***************************************************************************)
InitOver(files, platforms, hosts, infos) ==
    /\ conv \in ConvStart(infos)
    /\ platform \in platforms
    /\ hostRejects \in hosts
    /\ file \in files
    /\ dirExists \in BOOLEAN
    /\ file.kind # "absent" => dirExists
    /\ cache = <<>>
    /\ slots = [p \in Procs |-> IdleSlot]
    /\ epoch = 0
    /\ cacheRead = 0
    /\ producerLast = file
    /\ epochSeq = TRUE
    /\ epochReads = 0
    /\ epochCommits = 0
    /\ cachedReads = 0
    /\ lastRead = <<>>

\* what no query changes
Env == <<platform, hostRejects, conv>>
Disk == <<dirExists, file, producerLast>>

\* a caller starts a query: the synchronous part of loadData up to its
\* first await, and the whole query when the cache answers
Start(p, call) ==
    /\ slots[p].pc = "idle"
    /\ LET s == [IdleSlot EXCEPT !.call = call, !.startAt = epoch]
       IN IF CacheHit(cache)
          THEN /\ slots' = [slots EXCEPT
                              ![p] = Finished(s, "cache", LoadCached(cache[1]),
                                              cacheRead)]
          ELSE slots' = [slots EXCEPT ![p] = [s EXCEPT !.pc = "ensureDir"]]
    /\ epochSeq' = (epochSeq /\ \A q \in Procs \ {p} : ~InFlight(q))
    /\ UNCHANGED <<Env, Disk, cache, epoch, cacheRead, epochReads,
                   epochCommits, cachedReads, lastRead>>

\* await fs.ensureDir(...): it creates the directory, or fails and the
\* catch returns the empty document
EnsureDir(p) ==
    /\ slots[p].pc = "ensureDir"
    /\ \E ok \in BOOLEAN :
         IF ok
         THEN LET e == EnsureDirEffect(dirExists, file)
              IN /\ dirExists' = e.dirExists
                 /\ file' = e.file
                 /\ slots' = [slots EXCEPT ![p].pc = "pathExists"]
         ELSE /\ slots' = [slots EXCEPT
                             ![p] = Finished(slots[p], "dirError",
                                             LoadOutcome(FALSE, createEmptyData),
                                             epoch)]
              /\ UNCHANGED <<dirExists, file>>
    /\ UNCHANGED <<Env, producerLast, cache, epoch, cacheRead, epochSeq,
                   epochReads, epochCommits, cachedReads, lastRead>>

\* await fs.pathExists(persistenceFilePath)
PathExists(p) ==
    /\ slots[p].pc = "pathExists"
    /\ IF file.kind # "absent"
       THEN slots' = [slots EXCEPT ![p].pc = "readFile"]
       ELSE slots' = [slots EXCEPT
                        ![p] = Finished(slots[p], "missing",
                                        LoadOutcome(FALSE, createEmptyData),
                                        epoch)]
    /\ epochReads' = Bump(epochReads)
    /\ cachedReads' = IF cache # <<>> THEN Bump(cachedReads) ELSE cachedReads
    /\ UNCHANGED <<Env, Disk, cache, epoch, cacheRead, epochSeq, epochCommits,
                   lastRead>>

\* await fs.readFile(persistenceFilePath, 'utf-8'): the whole text as it is
\* at this instant, or an exception
ReadFile(p) ==
    /\ slots[p].pc = "readFile"
    /\ IF file.kind \in {"absent", "unreadable"}
       THEN /\ slots' = [slots EXCEPT
                           ![p] = Finished(slots[p], "readError",
                                           LoadOutcome(FALSE, createEmptyData),
                                           epoch)]
            /\ UNCHANGED lastRead
       ELSE /\ slots' = [slots EXCEPT ![p].pc = "commit", ![p].content = file,
                                      ![p].readAt = epoch]
            /\ lastRead' = <<file>>
    /\ UNCHANGED <<Env, Disk, cache, epoch, cacheRead, epochSeq, epochReads,
                   epochCommits, cachedReads>>

\* the continuation of loadData after readFile, and the rest of the query
Commit(p) ==
    /\ slots[p].pc = "commit"
    /\ LET r == LoadParsed(slots[p].content, cache)
       IN /\ cache' = r.cache
          /\ slots' = [slots EXCEPT
                         ![p] = Finished(slots[p], "read", r.load,
                                         slots[p].readAt)]
          /\ IF r.cached
             THEN /\ cacheRead' = slots[p].readAt
                  /\ epochCommits' = Bump(epochCommits)
             ELSE UNCHANGED <<cacheRead, epochCommits>>
    /\ UNCHANGED <<Env, Disk, epoch, epochSeq, epochReads, cachedReads,
                   lastRead>>

\* the caller takes the outcome
Return(p) ==
    /\ slots[p].pc = "done"
    /\ slots' = [slots EXCEPT ![p] = IdleSlot]
    /\ UNCHANGED <<Env, Disk, cache, epoch, cacheRead, epochSeq, epochReads,
                   epochCommits, cachedReads, lastRead>>

clearCache ==
    /\ epoch < MaxClears
    /\ cache' = <<>>
    /\ epoch' = epoch + 1
    /\ cacheRead' = 0
    /\ epochSeq' = (\A p, q \in Procs : InFlight(p) /\ InFlight(q) => p = q)
    /\ epochReads' = 0
    /\ epochCommits' = 0
    /\ cachedReads' = 0
    /\ lastRead' = <<>>
    /\ UNCHANGED <<Env, Disk, slots>>

\* the external producer rewrites or deletes the file
ProducerWrite(f) ==
    /\ f # file
    /\ file' = f
    /\ producerLast' = f
    /\ dirExists' = (dirExists \/ f.kind # "absent")
    /\ UNCHANGED <<Env, cache, slots, epoch, cacheRead, epochSeq, epochReads,
                   epochCommits, cachedReads, lastRead>>

(***************************************************************************)
(* Spec: callers, clearCache() and the producer interleave freely.         *)
(***************************************************************************)
Init == InitOver(ConcFiles, {"linux"}, {{}}, {})

Next ==
    \/ \E p \in Procs, call \in ConcCalls : Start(p, call)
    \/ \E p \in Procs : EnsureDir(p)
    \/ \E p \in Procs : PathExists(p)
    \/ \E p \in Procs : ReadFile(p)
    \/ \E p \in Procs : Commit(p)
    \/ \E p \in Procs : Return(p)
    \/ clearCache
    \/ \E f \in ConcFiles : ProducerWrite(f)

Spec == Init /\ [][Next]_vars

(***************************************************************************)
(* SpecFn: one caller issues every query of the model, one after another,  *)
(* over every file within the bounds, on both platforms and both hosts.    *)
(***************************************************************************)
InitFn == InitOver(DataFiles, Platforms, HostPolicies, {})

NextFn ==
    \/ \E call \in AllCalls : Start("c1", call)
    \/ EnsureDir("c1")
    \/ PathExists("c1")
    \/ ReadFile("c1")
    \/ Commit("c1")
    \/ Return("c1")

SpecFn == InitFn /\ [][NextFn]_vars

(***************************************************************************)
(* SpecCv: the converter on every record and key within the bounds, as     *)
(* the two facade operations call it.                                      *)
(***************************************************************************)
Store ==
    <<dirExists, file, producerLast, cache, slots, epoch, cacheRead, epochSeq,
      epochReads, epochCommits, cachedReads, lastRead>>

\* const envId = this.generateEnvId(info), in getWorkspaceEnvironments:
\* the records the store returns there are truthy
CvGenerateEnvId ==
    /\ conv.pc = "record"
    /\ Truthy(conv.info)
    /\ conv' = [conv EXCEPT !.pc = "keyed", !.how = "generated",
                            !.envId = generateEnvId(conv.info)]
    /\ UNCHANGED <<platform, hostRejects, Store>>

\* for (const [envId, info] of wslEnvs), in discoverEnvironments: the key
\* is the one of the file
CvStoredKey(k) ==
    /\ conv.pc = "record"
    /\ conv' = [conv EXCEPT !.pc = "keyed", !.how = "stored", !.envId = k]
    /\ UNCHANGED <<platform, hostRejects, Store>>

\* this.convertToPythonEnvironment(info, envId)
CvConvert ==
    /\ conv.pc = "keyed"
    /\ conv' = [conv EXCEPT
                  !.pc = "converted",
                  !.out = convertToPythonEnvironment(conv.info, conv.envId,
                                                     hostRejects)]
    /\ UNCHANGED <<platform, hostRejects, Store>>

InitCv == InitOver({AbsentFile}, {"linux"}, HostPolicies, CvInfos)

NextCv ==
    \/ CvGenerateEnvId
    \/ \E k \in CvKeys : CvStoredKey(k)
    \/ CvConvert

SpecCv == InitCv /\ [][NextCv]_vars

(***************************************************************************)
(* SpecWs: one caller looks a workspace up under every spelling of its     *)
(* path, on both platforms.                                                *)
(***************************************************************************)
InitWs == InitOver(WsFiles, Platforms, {{}}, {})

NextWs ==
    \/ \E call \in WsCalls : Start("c1", call)
    \/ EnsureDir("c1")
    \/ PathExists("c1")
    \/ ReadFile("c1")
    \/ Commit("c1")
    \/ Return("c1")

SpecWs == InitWs /\ [][NextWs]_vars

TypeOK ==
    /\ epoch \in 0..MaxClears
    /\ \A p \in Procs : slots[p].pc \in
         {"idle", "ensureDir", "pathExists", "readFile", "commit", "done"}

(***************************************************************************)
(* Properties.                                                             *)
(***************************************************************************)
Done(p) == slots[p].pc = "done"

\* the descriptor d was converted from the record r (all fields but the
\* resource locator, which depends on the key given to the converter)
SameRecord(d, r) ==
    [d EXCEPT !.environmentPath = UriError]
        = [PythonEnvironmentInfo(r, <<>>) EXCEPT !.environmentPath = UriError]

\* C1: a query that starts after a clearCache() call has returned works
\* from a file access made after that call: the epoch of the access its
\* outcome comes from is not older than the epoch it started in.
C1_FreshReadAfterClear ==
    \A p \in Procs : Done(p) => slots[p].readAt >= slots[p].startAt

\* C2: no query of the store throws, whatever the file is.
C2_StoreNeverThrows ==
    \A p \in Procs :
        Done(p) /\ slots[p].call \in StoreCalls => ~slots[p].result.threw

\* C3: a facade operation reports every record of the queried set whose
\* own conversion succeeds, whatever the other records are.
C3_ValidRecordsReported ==
    \A p \in Procs :
      Done(p) =>
        LET s == slots[p]
            envs == s.load.data.environments
            recs == getWorkspaceEnvironments(s.load, s.call.path, platform)
        IN /\ s.call.op = "discoverEnvironments" =>
                \A i \in 1..Len(envs) :
                    LET c == convertToPythonEnvironment(envs[i].val,
                                                        envs[i].key,
                                                        hostRejects)
                    IN c.ok => \E j \in 1..Len(s.result.envs) :
                                   s.result.envs[j] = c.env
           /\ s.call.op = "discovery.getWorkspaceEnvironments" /\ ~recs.threw =>
                \A i \in 1..Len(recs.recs) :
                    LET c == convertToPythonEnvironment(
                                 recs.recs[i], generateEnvId(recs.recs[i]),
                                 hostRejects)
                    IN c.ok => \E j \in 1..Len(s.result.envs) :
                                   s.result.envs[j] = c.env

\* C4: once a document is cached, the cache (what every later query
\* returns) stays that document until clearCache() is called.
C4_CachedUntilCleared ==
    [][(cache # <<>> /\ epoch' = epoch) => cache' = cache]_vars

\* C5 as stated: in an epoch of sequentially issued queries the load
\* algorithm accesses the file at most once, whatever the file is.
C5_LoadOncePerEpoch == epochSeq => epochReads <= 1

\* C5 as amended: in an epoch of sequentially issued queries at most one
\* load caches a document, and once a document is cached no query accesses
\* the file (loads that end in the empty fallback cache nothing and are
\* run again by each query).
C5_NoLoadOnceCached == epochSeq => epochCommits <= 1 /\ cachedReads = 0

\* two sequential queries of one epoch, the first loaded and cached, the
\* second was answered by the cache
C5_Witness ==
    /\ epochSeq /\ epochReads = 1 /\ epochCommits = 1
    /\ \A p \in Procs : Done(p)
    /\ \E p, q \in Procs : slots[p].how = "read" /\ slots[q].how = "cache"

\* the names of the "environments" members of a file are distinct and both
\* members of the document are there
WellFormedFile(f) ==
    /\ f.kind = "object" /\ f.hasEnvs /\ f.hasMap
    /\ \A i, j \in 1..Len(f.envs) : f.envs[i].key = f.envs[j].key => i = j

\* C6: a load of a well-formed file of the supported version yields a
\* document with exactly the entries of the file; a load of a file of any
\* other version yields the empty document and does not throw.
C6_LoadYieldsFileEntries ==
    \A p \in Procs :
      Done(p) /\ slots[p].how = "read" /\ slots[p].content.kind = "object" =>
        LET f == slots[p].content
            l == slots[p].load
        IN /\ f.version = CURRENT_VERSION /\ WellFormedFile(f) =>
                /\ ~l.threw
                /\ Len(l.data.environments) = Len(f.envs)
                /\ \A i \in 1..Len(f.envs) :
                       /\ HasOwn(l.data.environments, f.envs[i].key)
                       /\ OwnValue(l.data.environments, f.envs[i].key)
                            = f.envs[i].val
           /\ f.version # CURRENT_VERSION =>
                /\ ~l.threw
                /\ l.data.environments = <<>>
                /\ l.data.workspaceMapping = <<>>

\* one caller loaded a well-formed file of the supported version, the
\* other a file of another version
C6_Witness ==
    \E p, q \in Procs :
        /\ Done(p) /\ slots[p].how = "read" /\ slots[p].content = ValidFileA
        /\ slots[p].load.data.environments = <<Member(KeyVenv, RecVenv)>>
        /\ Done(q) /\ slots[q].how = "read"
        /\ slots[q].content = OldVersionFile

HasRecord(environments, k) ==
    HasOwn(environments, k) /\ OwnValue(environments, k).tag = "object"

\* the records of the keys listed under the path, without the keys that
\* have no record, in the order of the list
RECURSIVE ListedRecords(_, _)
ListedRecords(environments, ids) ==
    IF ids = <<>> THEN <<>>
    ELSE IF HasRecord(environments, Head(ids))
    THEN <<OwnValue(environments, Head(ids))>>
         \o ListedRecords(environments, Tail(ids))
    ELSE ListedRecords(environments, Tail(ids))

\* C8: getWorkspaceEnvironments(p) of the store returns the records of the
\* keys listed under the normalized p that have a record, in the order of
\* the list, and the empty list when the path has no entry.
C8_WorkspaceRecordsInOrder ==
    \A p \in Procs :
      Done(p) /\ slots[p].call.op = "getWorkspaceEnvironments" =>
        LET data == slots[p].load.data
            np == normalizePath(slots[p].call.path, platform)
            ids == IF HasOwn(data.workspaceMapping, np)
                   THEN OwnValue(data.workspaceMapping, np) ELSE <<>>
        IN /\ ~slots[p].result.threw
           /\ slots[p].result.recs = ListedRecords(data.environments, ids)

WellFormedRecord(r) ==
    /\ r.tag = "object"
    /\ Undefined \notin {r.distro, r.wslPath, r.venvPath, r.name, r.type}

MissingPath(r) == r.tag = "object" /\ r.wslPath = Undefined

\* C9: discoverEnvironments() over a document of one well-formed record
\* and one record without wslPath returns exactly one descriptor, that of
\* the well-formed record, and does not throw.
C9_OneDescriptorOfTwo ==
    \A p \in Procs :
      Done(p) /\ slots[p].call.op = "discoverEnvironments" =>
        LET envs == slots[p].load.data.environments
            res == slots[p].result
        IN \A i, j \in 1..Len(envs) :
             Len(envs) = 2 /\ WellFormedRecord(envs[i].val)
                /\ MissingPath(envs[j].val) =>
                  /\ ~res.threw
                  /\ Len(res.envs) = 1
                  /\ SameRecord(res.envs[1], envs[i].val)

\* the record of entry m of the document, reported by the facade's
\* getWorkspaceEnvironments as d and by discoverEnvironments() over the
\* same load as dd, has the same resource locator in both
AgreeOn(m, d, dd) ==
    SameRecord(d, m.val) /\ SameRecord(dd, m.val)
        /\ dd.environmentPath = UriParse(m.key)
    => d.environmentPath = dd.environmentPath

BothReported(s, Cond(_)) ==
    LET envs == s.load.data.environments
        all == discoverEnvironments(s.load, hostRejects).envs
    IN \A i \in 1..Len(envs), j \in 1..Len(s.result.envs), k \in 1..Len(all) :
          Cond(envs[i]) => AgreeOn(envs[i], s.result.envs[j], all[k])

AnyEntry(m) == TRUE

\* C10 as stated: every record reported by both facade operations from the
\* same document has the same resource locator in both descriptors.
C10_SameLocator ==
    \A p \in Procs :
      Done(p) /\ slots[p].call.op = "discovery.getWorkspaceEnvironments" =>
        BothReported(slots[p], AnyEntry)

\* the key the producer's rule gives the record of an entry is the key
\* the entry is stored under
StoredUnderOwnKey(m) ==
    /\ m.val.tag = "object"
    /\ m.val.distro # Undefined /\ m.val.wslPath # Undefined
    /\ m.key = <<"wsl", ":">> \o m.val.distro \o <<":">> \o m.val.wslPath

\* C10 as amended: every record that is stored under the key built from
\* its own fields and is reported by both facade operations from the same
\* document has the same resource locator in both descriptors.
C10_SameLocatorOwnKey ==
    \A p \in Procs :
      Done(p) /\ slots[p].call.op = "discovery.getWorkspaceEnvironments" =>
        BothReported(slots[p], StoredUnderOwnKey)

\* the facade's getWorkspaceEnvironments reported a record stored under
\* its own key, which discoverEnvironments() reports too
C10_Witness ==
    \E p \in Procs :
      /\ Done(p) /\ slots[p].call.op = "discovery.getWorkspaceEnvironments"
      /\ LET s == slots[p]
             envs == s.load.data.environments
             all == discoverEnvironments(s.load, hostRejects).envs
         IN \E i \in 1..Len(envs), j \in 1..Len(s.result.envs),
               k \in 1..Len(all) :
                /\ StoredUnderOwnKey(envs[i])
                /\ SameRecord(s.result.envs[j], envs[i].val)
                /\ SameRecord(all[k], envs[i].val)
                /\ all[k].environmentPath = UriParse(envs[i].key)
                /\ s.result.envs[j].environmentPath = all[k].environmentPath

\* a record was converted with the key generated from it
ConvertedWithOwnKey ==
    conv.pc = "converted" /\ conv.how = "generated" /\ conv.info.tag = "object"

\* 'wsl:' + distribution + ':' + interpreter path, as JavaScript
\* concatenates strings
KeyText(info) ==
    <<"wsl", ":">> \o Tmpl(info.distro) \o <<":">> \o Tmpl(info.wslPath)

NoQueryNoEscape(str) == \A i \in 1..Len(str) : str[i] \notin {"?", "%20"}

\* the fields of the key survive parsing and unencoded formatting
PlainKeyFields(info) ==
    /\ NoQueryNoEscape(Tmpl(info.distro))
    /\ NoQueryNoEscape(Tmpl(info.wslPath))
    /\ \A t \in DriveLetters : info.distro # <<t>>

ConvertedOk == conv.pc = "converted" /\ conv.out.ok

ShellKeys == {"bash", "zsh", "fish", "pwsh", "unknown"}

\* C12: activation, shellActivation and deactivation of the execution
\* configuration are all present exactly when the kind of the record is
\* venv, and absent for every other kind; when present, shellActivation
\* has exactly the keys bash, zsh, fish, pwsh and unknown, each with a
\* non-empty command list, activation has one entry and deactivation is
\* the single command deactivate without arguments.
C12_ActivationIffVenv ==
    ConvertedOk =>
        LET e == conv.out.env.execInfo
            venv == conv.info.type = <<"venv">>
            sh == e.shellActivation.value
        IN /\ e.activation.present = venv
           /\ e.shellActivation.present = venv
           /\ e.deactivation.present = venv
           /\ venv =>
                /\ Len(e.activation.value) = 1
                /\ { sh[i].key : i \in 1..Len(sh) } = ShellKeys
                /\ Len(sh) = Cardinality(ShellKeys)
                /\ \A i \in 1..Len(sh) : sh[i].val # <<>>
                /\ e.deactivation.value = << Command(<<"deactivate">>, <<>>) >>

\* a record of kind venv with base directory /mnt/c/proj/.venv was
\* converted: bash sources /mnt/c/proj/.venv/bin/activate
C12_Witness ==
    /\ ConvertedOk /\ conv.info.type = <<"venv">>
    /\ conv.info.venvPath = <<"/", "mnt", "/", "c", "/", "proj", "/", ".venv">>
    /\ conv.out.env.execInfo.shellActivation.value[1]
         = Member("bash",
                  << Command(<<"source">>,
                             << <<"/", "mnt", "/", "c", "/", "proj", "/",
                                  ".venv", "/", "bin", "/", "activate">> >>) >>)

\* the converter was given a record and a key for which a step of the
\* conversion fails
ConversionFails ==
    \/ conv.info.tag \in {"null", "undefined"}
    \/ ~UriParse(conv.envId).ok
    \/ conv.info.wslPath \in hostRejects

\* C14: the converter never throws to its caller: when building the
\* execution configuration, parsing the key or the host factory fails it
\* returns undefined, and else the descriptor the host factory produced.
C14_ConverterNeverThrows ==
    conv.pc = "converted" =>
        /\ ~conv.out.threw
        /\ ConversionFails => ~conv.out.ok
        /\ ~ConversionFails =>
             conv.out = createPythonEnvironmentItem(
                            PythonEnvironmentInfo(conv.info, conv.envId),
                            hostRejects)

\* the converter was given the record null and returned undefined
C14_Witness ==
    /\ conv.pc = "converted" /\ conv.info = JsNull
    /\ ~conv.out.threw /\ ~conv.out.ok

\* C15: for every record, whatever its kind, the run command of the
\* execution configuration is wsl.exe with the arguments -d, the
\* distribution, -- and the interpreter path, in that order.
C15_RunThroughLauncher ==
    ConvertedOk =>
        LET run == conv.out.env.execInfo.run
        IN /\ run.executable = <<"wsl.exe">>
           /\ run.args = << <<"-d">>, conv.info.distro, <<"--">>,
                            conv.info.wslPath >>

\* a record of kind system was converted: its run command is
\* wsl.exe -d Ubuntu-22.04 -- /mnt/c/w/.venv/bin/python
C15_Witness ==
    /\ ConvertedOk /\ conv.info.type = <<"system">>
    /\ conv.out.env.execInfo.run
         = Command(<<"wsl.exe">>,
                   << <<"-d">>, <<"Ubuntu-22.04">>, <<"--">>,
                      <<"/", "mnt", "/", "c", "/", "w", "/", ".venv", "/",
                        "bin", "/", "python">> >>)

\* C13: no facade operation throws: when the store operation it calls
\* throws, or a step of processing the records throws, it returns the
\* empty list.
C13_FacadeNeverThrows ==
    \A p \in Procs :
      Done(p) /\ slots[p].call \in FacadeCalls =>
        LET s == slots[p]
            envs == s.load.data.environments
        IN /\ ~s.result.threw
           /\ /\ s.call.op = "discoverEnvironments"
              /\ \/ getAllEnvironments(s.load).threw
                 \/ \E i \in 1..Len(envs) : ~Truthy(envs[i].val)
              => s.result.envs = <<>>
           /\ /\ s.call.op = "discovery.getWorkspaceEnvironments"
              /\ getWorkspaceEnvironments(s.load, s.call.path, platform).threw
              => s.result.envs = <<>>

\* discoverEnvironments() returned the empty list after loadData threw in
\* getAllEnvironments()
C13_Witness ==
    \E p \in Procs :
        /\ Done(p) /\ slots[p].call.op = "discoverEnvironments"
        /\ slots[p].load.threw
        /\ getAllEnvironments(slots[p].load).threw
        /\ ~slots[p].result.threw /\ slots[p].result.envs = <<>>

\* loadData caches a text of this kind
Cacheable(f) == f.kind = "object" /\ f.version = CURRENT_VERSION

\* C16: once the overlapping loads of an epoch have all completed, the
\* cache holds the content of the most recent file read among them (so no
\* later query returns a document older than one a query of the epoch
\* returned before).
C16_CacheHoldsLatestRead ==
    /\ \A p \in Procs : ~InFlight(p)
    /\ lastRead # <<>> /\ Cacheable(lastRead[1])
    => cache = <<JSONparse(lastRead[1])>>

\* the documents that are the whole content of one version of the file,
\* and the empty document
WholeDocs ==
    {createEmptyData} \cup { JSONparse(f) : f \in { g \in ConcFiles : Cacheable(g) } }

\* C17: every document a query works from, returned by a load or held in
\* the cache, is the empty document or the whole content the file had at
\* one instant: the text of one readFile, never a mix of two versions.
C17_WholeFileOrEmpty ==
    /\ cache # <<>> => cache[1] \in WholeDocs
    /\ \A p \in Procs :
         Done(p) =>
            /\ slots[p].load.data \in WholeDocs
            /\ slots[p].how = "read" =>
                 slots[p].load.data \in
                    {createEmptyData, JSONparse(slots[p].content)}
            /\ slots[p].how \in {"dirError", "missing", "readError"} =>
                 slots[p].load.data = createEmptyData

\* both callers loaded while the producer rewrote the file: one works
\* from the whole of the first version, the other from the whole of the
\* second
C17_Witness ==
    \E p, q \in Procs :
        /\ Done(p) /\ slots[p].how = "read"
        /\ slots[p].load.data = JSONparse(ValidFileA)
        /\ Done(q) /\ slots[q].how = "read"
        /\ slots[q].load.data = JSONparse(ValidFileB)
        /\ cache # <<>>

\* the conversion of a record the store returned for a workspace
ConvertedRecord(r) ==
    convertToPythonEnvironment(r, generateEnvId(r), hostRejects)

\* the positions of the records whose conversion returned a descriptor
Kept(recs) == { i \in 1..Len(recs) : ConvertedRecord(recs[i]).ok }

\* the j-th of these positions
KeptAt(recs, j) ==
    CHOOSE i \in Kept(recs) : Cardinality({ k \in Kept(recs) : k < i }) = j - 1

\* C18: the facade's getWorkspaceEnvironments(p) returns the descriptors
\* of the records the store returned, in the order of the store, without
\* those whose conversion returned undefined: nothing is reordered or
\* duplicated.
C18_FacadeKeepsStoreOrder ==
    \A p \in Procs :
      Done(p) /\ slots[p].call.op = "discovery.getWorkspaceEnvironments" =>
        LET s == slots[p]
            st == getWorkspaceEnvironments(s.load, s.call.path, platform)
        IN ~st.threw =>
             /\ Len(s.result.envs) = Cardinality(Kept(st.recs))
             /\ \A j \in 1..Len(s.result.envs) :
                    s.result.envs[j]
                        = ConvertedRecord(st.recs[KeptAt(st.recs, j)]).env

\* the store returned the record without wslPath and then the venv
\* record, the host refused the first: the facade returned the descriptor
\* of the second alone
C18_Witness ==
    \E p \in Procs :
      /\ Done(p) /\ slots[p].call.op = "discovery.getWorkspaceEnvironments"
      /\ getWorkspaceEnvironments(slots[p].load, slots[p].call.path,
                                  platform).recs = <<RecNoPath, RecVenv>>
      /\ Len(slots[p].result.envs) = 1
      /\ SameRecord(slots[p].result.envs[1], RecVenv)

\* the key of the mapping entry has no upper-case letter
LowerCaseKey(m) == m.key = toLowerCase(m.key)

\* C19: the workspace is looked up under the normalized path, lower-cased
\* on win32 only: there, paths that differ only in letter case give the
\* same result and an entry whose key has an upper-case letter is never
\* returned; on the other platforms the lookup is case-sensitive.
C19_LookupCaseByPlatform ==
    \A p \in Procs :
      Done(p) /\ slots[p].call.op = "getWorkspaceEnvironments"
              /\ ~slots[p].load.threw /\ slots[p].load.data.hasMap
              /\ slots[p].load.data.hasEnvs =>
        LET s == slots[p]
            data == s.load.data
            path == pathNormalize(s.call.path, platform)
        IN IF platform = "win32"
           THEN /\ \A w \in WsCasePaths \cup WsPaths :
                     toLowerCase(w) = toLowerCase(s.call.path) =>
                        getWorkspaceEnvironments(s.load, w, platform) = s.result
                /\ s.result.recs =
                     ResolveIds(data.environments,
                                GetListOrEmpty(
                                    SelectSeq(data.workspaceMapping, LowerCaseKey),
                                    toLowerCase(path)))
           ELSE s.result.recs =
                     ResolveIds(data.environments,
                                GetListOrEmpty(data.workspaceMapping, path))

\* on win32 the workspace was asked for as C:\Work, the mapping has the
\* keys C:\Work and c:\work: the records of c:\work were returned
C19_Witness ==
    \E p \in Procs :
      /\ Done(p) /\ slots[p].call = Call("getWorkspaceEnvironments",
                                         WsUpperKey, <<>>)
      /\ platform = "win32"
      /\ HasOwn(slots[p].load.data.workspaceMapping, WsUpperKey)
      /\ HasOwn(slots[p].load.data.workspaceMapping, WsKey)
      /\ slots[p].result.recs = <<RecVenv>>

\* C20: the document a load caches is the document it returned, and the
\* cache, when populated, holds a document of the supported version that
\* has an environments mapping (so that consecutive calls of a query, with
\* nothing in between, return the same outcome).
C20_CachedIsReturned ==
    /\ cache # <<>> =>
         cache[1].version = CURRENT_VERSION /\ cache[1].hasEnvs
    /\ \A p \in Procs :
         Done(p) /\ slots[p].how = "read" /\ cache # <<>> =>
            slots[p].load.data = cache[1]

\* the keys of the mapping getAllEnvironments() returns
ReturnedKeys(l) ==
    LET all == getAllEnvironments(l).map
    IN { all[i].key : i \in 1..Len(all) }

\* C21: for every key k and every loaded document, hasEnvironment(k) is
\* true exactly when getEnvironment(k) returns a value that is not absent
\* and exactly when k is a key of getAllEnvironments(), also for keys
\* whose stored value is null and for keys that are no entry of the file.
C21_HasIffGetIffListed ==
    \A p \in Procs :
      Done(p) /\ slots[p].call.op = "hasEnvironment" /\ ~slots[p].result.threw =>
        LET s == slots[p]
            k == s.call.key
        IN /\ s.result.has = (getEnvironment(s.load, k).rec.tag # "undefined")
           /\ s.result.has = (k \in ReturnedKeys(s.load))

=============================================================================
